---- MODULE Spec2Model ----
(***************************************************************************)
(* A model of gpt-cli's input parsing (gptcli/cli.py parse_args), streamed *)
(* response printing (StreamingMarkdownPrinter), input collection          *)
(* (CLIUserInputProvider), chat listener (CLIChatListener) and completion  *)
(* event normalisation (gptcli/providers/openai.py complete, gpt_pricing). *)
(*                                                                         *)
(* Text is a sequence of one-character strings.  The placeholder that      *)
(* parse_args substitutes for an extracted span, "__EXTRACTED_PART_i__",   *)
(* is one element of such a sequence: it is a run of word characters that  *)
(* no regular expression of parse_args can split.                          *)
(***************************************************************************)
EXTENDS Integers, Sequences, FiniteSets, TLC

VARIABLES
    \* parse_args: the line given, the spans extracted from it, the text and
    \* the options returned, and whether the call has returned
    input, extracted_parts, out_text, out_args, ppc,
    \* gpt_pricing: the model id given, the tier returned (an optional
    \* value), and whether the call has returned
    pricing_model, pricing, rpc,
    \* StreamingMarkdownPrinter: its fields (live is "None" until __enter__),
    \* and the fragments given to print so far
    current_text, first_token, live, chat_history, fragments,
    \* whether the Console the printer draws on has a live display that is
    \* started
    console_live,
    \* the markdown flag of the printer, the renderables that the layout's
    \* history area holds, each call of _render_partial_markdown of the last
    \* rendering (the text given and the text handed to CustomMarkdown), and
    \* the text, if any, on which CustomMarkdown raises
    markdown, view, handed, unparsable,
    \* complete: args["model"], the stream flag, the request sent, the chunk
    \* or response at hand, the events yielded so far and where each came
    \* from, the number of chunks received, the provider's failure, the
    \* error raised, the calls of next() after the end, the position
    args_model, stream, request, response, events, origin, delivered,
    failure, error, pulls, cpc,
    \* CLIChatListener: its current_printer field, what it has printed on
    \* the console, the number of calls of on_chat_message, and the printers
    \* of the streamers that response_streamer has made, in order
    current_printer, console, messages, printers,
    \* CLIUserInputProvider.get_user_input: the outcome of every prompt so
    \* far, the line at hand, and the position
    prompts, next_user_input, upc

parseVars == <<input, extracted_parts, out_text, out_args, ppc>>

pricingVars == <<pricing_model, pricing, rpc>>

printerVars ==
    <<current_text, first_token, live, chat_history, fragments,
      console_live, markdown, view, handed, unparsable>>

completeVars ==
    <<args_model, stream, request, response, events, origin, delivered,
      failure, error, pulls, cpc>>

listenerVars == <<current_printer, console, messages, printers>>

inputVars == <<prompts, next_user_input, upc>>

vars ==
    <<parseVars, pricingVars, printerVars, completeVars, listenerVars,
      inputVars>>

(***************************************************************************)
(* Bounds                                                                  *)
(***************************************************************************)
MaxTokens == 5
MaxPrints == 3
MaxChunks == 2
MaxPulls == 1
MaxPrompts == 4
MaxMessages == 1
MaxStreamers == 2
MaxHistory == 2
MaxStreamed == 2
MaxConsole == 2

(***************************************************************************)
(* Characters and strings                                                  *)
(***************************************************************************)
\* the backtick character (U+0060), which a TLA+ string cannot hold
BT == "BACKTICK"
DQ == "\""
SQ == "'"
SP == " "
DASH == "-"
EQ == "="

RECURSIVE Concat(_)
Concat(ss) == IF ss = <<>> THEN <<>> ELSE Head(ss) \o Concat(Tail(ss))

\* str.startswith(d) at 1-based position pos
IsAt(s, pos, d) ==
    /\ pos >= 1
    /\ pos + Len(d) - 1 <= Len(s)
    /\ SubSeq(s, pos, pos + Len(d) - 1) = d

\* smallest position >= from where d occurs in s, 0 when there is none
RECURSIVE FindFrom(_, _, _)
FindFrom(s, from, d) ==
    IF from + Len(d) - 1 > Len(s) THEN 0
    ELSE IF IsAt(s, from, d) THEN from
    ELSE FindFrom(s, from + 1, d)

\* first position >= pos whose character is not in class (Len(s)+1 at the end)
RECURSIVE RunEnd(_, _, _)
RunEnd(s, pos, class) ==
    IF pos > Len(s) THEN pos
    ELSE IF s[pos] \in class THEN RunEnd(s, pos + 1, class)
    ELSE pos

RECURSIVE LStripChars(_, _)
LStripChars(s, class) ==
    IF s # <<>> /\ Head(s) \in class THEN LStripChars(Tail(s), class) ELSE s

RECURSIVE RStripChars(_, _)
RStripChars(s, class) ==
    IF s # <<>> /\ s[Len(s)] \in class
    THEN RStripChars(SubSeq(s, 1, Len(s) - 1), class)
    ELSE s

\* str.strip(chars)
StripChars(s, class) == RStripChars(LStripChars(s, class), class)

\* characters matched by \s
Whitespace == {SP, "\n"}

\* str.strip()
Strip(s) == StripChars(s, Whitespace)

(***************************************************************************)
(* parse_args                                                              *)
(***************************************************************************)
PlaceholderNames ==
    << "__EXTRACTED_PART_0__", "__EXTRACTED_PART_1__", "__EXTRACTED_PART_2__",
       "__EXTRACTED_PART_3__", "__EXTRACTED_PART_4__", "__EXTRACTED_PART_5__",
       "__EXTRACTED_PART_6__", "__EXTRACTED_PART_7__", "__EXTRACTED_PART_8__",
       "__EXTRACTED_PART_9__", "__EXTRACTED_PART_10__", "__EXTRACTED_PART_11__",
       "__EXTRACTED_PART_12__", "__EXTRACTED_PART_13__", "__EXTRACTED_PART_14__",
       "__EXTRACTED_PART_15__", "__EXTRACTED_PART_16__", "__EXTRACTED_PART_17__",
       "__EXTRACTED_PART_18__", "__EXTRACTED_PART_19__" >>

\* f"__EXTRACTED_PART_{i}__"
Placeholder(i) == PlaceholderNames[i + 1]

Placeholders == {PlaceholderNames[i] : i \in DOMAIN PlaceholderNames}

\* the characters an input line is drawn from
InputChars == {BT, DQ, SQ, SP, DASH, EQ, "a"}

\* characters matched by \w and by \S
WordChars == {"a"} \cup Placeholders
NonSpace == (InputChars \cup Placeholders) \ Whitespace

delimiters == << <<BT, BT, BT>>, <<DQ, DQ, DQ>>, <<BT>> >>

\* re.escape(d) + "(.*?)" + re.escape(d) tried at pos: the position of the
\* closing delimiter (the nearest one, .*? being lazy), 0 when it fails
MatchAlt(s, pos, i) ==
    LET d == delimiters[i]
    IN  IF IsAt(s, pos, d) THEN FindFrom(s, pos + Len(d), d) ELSE 0

\* the alternation tries its fragments in the order of the delimiters list
FirstAlt(s, pos) ==
    IF MatchAlt(s, pos, 1) # 0 THEN 1
    ELSE IF MatchAlt(s, pos, 2) # 0 THEN 2
    ELSE IF MatchAlt(s, pos, 3) # 0 THEN 3
    ELSE 0

\* pattern.sub(replacer, input): leftmost non-overlapping matches, each
\* replaced by its placeholder and recorded in extracted_parts
RECURSIVE SubLiterals(_, _, _, _)
SubLiterals(s, pos, out, parts) ==
    IF pos > Len(s) THEN [text |-> out, parts |-> parts]
    ELSE LET i == FirstAlt(s, pos)
         IN  IF i = 0
             THEN SubLiterals(s, pos + 1, Append(out, s[pos]), parts)
             ELSE LET d == delimiters[i]
                      q == MatchAlt(s, pos, i)
                      part == SubSeq(s, pos + Len(d), q - 1)
                  IN  SubLiterals(s, q + Len(d),
                                  Append(out, Placeholder(Len(parts))),
                                  Append(parts, <<part, d>>))

\* r"--(\w+)" matches at pos
FlagAt(s, pos) ==
    /\ IsAt(s, pos, <<DASH, DASH>>)
    /\ pos + 2 <= Len(s)
    /\ s[pos + 2] \in WordChars

\* the match of r"--(\w+)(?:=(\S+)|\s+(\S+))?" at pos, given FlagAt(s, pos):
\* its groups and the position after it
FlagMatch(s, pos) ==
    LET k == RunEnd(s, pos + 2, WordChars)
        key == SubSeq(s, pos + 2, k - 1)
    IN  IF k + 1 <= Len(s) /\ s[k] = EQ /\ s[k + 1] \in NonSpace
        THEN LET e == RunEnd(s, k + 1, NonSpace)
             IN  [key |-> key, value1 |-> SubSeq(s, k + 1, e - 1),
                  value2 |-> <<>>, next |-> e]
        ELSE IF k <= Len(s) /\ s[k] \in Whitespace
                /\ RunEnd(s, k, Whitespace) <= Len(s)
        THEN LET w == RunEnd(s, k, Whitespace)
                 e == RunEnd(s, w, NonSpace)
             IN  [key |-> key, value1 |-> <<>>,
                  value2 |-> SubSeq(s, w, e - 1), next |-> e]
        ELSE [key |-> key, value1 |-> <<>>, value2 |-> <<>>, next |-> k]

\* re.findall(regex, input) and re.sub(regex, "", input) in one scan:
\* the matches in order, and the text with the matches removed
RECURSIVE ScanFlags(_, _, _, _)
ScanFlags(s, pos, rest, matches) ==
    IF pos > Len(s) THEN [rest |-> rest, matches |-> matches]
    ELSE IF FlagAt(s, pos)
    THEN LET m == FlagMatch(s, pos)
         IN  ScanFlags(s, m.next, rest, Append(matches, m))
    ELSE ScanFlags(s, pos + 1, Append(rest, s[pos]), matches)

\* value = value1 if value1 else value2 if value2 else ""
FlagValue(m) ==
    IF m.value1 # <<>> THEN m.value1
    ELSE IF m.value2 # <<>> THEN m.value2
    ELSE <<>>

\* args[key] = value.strip("\"'")
SetArg(args, m) ==
    [k \in DOMAIN args \cup {m.key} |->
        IF k = m.key THEN StripChars(FlagValue(m), {DQ, SQ}) ELSE args[k]]

\* for key, value1, value2 in matches: ...
RECURSIVE CollectArgs(_, _)
CollectArgs(args, matches) ==
    IF matches = <<>> THEN args
    ELSE CollectArgs(SetArg(args, Head(matches)), Tail(matches))

\* an empty dict
EmptyArgs == [k \in {} |-> <<>>]

\* str.replace(old, new) where old is one placeholder
RECURSIVE Replace(_, _, _)
Replace(s, old, new) ==
    IF s = <<>> THEN <<>>
    ELSE IF Head(s) = old THEN new \o Replace(Tail(s), old, new)
    ELSE <<Head(s)>> \o Replace(Tail(s), old, new)

\* the restoring loop, from part i on
RECURSIVE Restore(_, _, _)
Restore(s, parts, i) ==
    IF i >= Len(parts) THEN s
    ELSE LET part == parts[i + 1][1]
             delimiter == parts[i + 1][2]
         IN  Restore(Replace(s, Placeholder(i),
                             delimiter \o Strip(part) \o delimiter),
                     parts, i + 1)

parse_args(line) ==
    LET sub == SubLiterals(line, 1, <<>>, <<>>)
        scan == ScanFlags(sub.text, 1, <<>>, <<>>)
        args == CollectArgs(EmptyArgs, scan.matches)
        remaining == IF scan.matches # <<>> THEN Strip(scan.rest) ELSE sub.text
    IN  [text |-> Restore(remaining, sub.parts, 0),
         args |-> args,
         parts |-> sub.parts]

(***************************************************************************)
(* Input lines: concatenations of at most MaxTokens of these pieces        *)
(***************************************************************************)
Tokens ==
    { <<BT>>, <<BT, BT, BT>>, <<DQ, DQ, DQ>>, <<DASH, DASH, "a">>,
      <<DASH, DASH>>, <<SP>>, <<"a">>, <<EQ>> }

Lines ==
    { Concat(ts) : ts \in UNION { [1..n -> Tokens] : n \in 0..MaxTokens } }

InitParse ==
    /\ input \in Lines
    /\ extracted_parts = <<>>
    /\ out_text = <<>>
    /\ out_args = EmptyArgs
    /\ ppc = "start"

\* no call of parse_args is under way
ParseIdle ==
    /\ input = <<>>
    /\ extracted_parts = <<>>
    /\ out_text = <<>>
    /\ out_args = EmptyArgs
    /\ ppc = "idle"

ParseArgs ==
    /\ ppc = "start"
    /\ LET r == parse_args(input)
       IN  /\ out_text' = r.text
           /\ out_args' = r.args
           /\ extracted_parts' = r.parts
    /\ ppc' = "done"
    /\ UNCHANGED input
    /\ UNCHANGED <<pricingVars, printerVars, completeVars,
                   listenerVars, inputVars>>

(***************************************************************************)
(* gpt_pricing (gptcli/providers/openai.py)                                *)
(*                                                                         *)
(* A model id is a sequence of characters.  An optional value (None or a   *)
(* value) is a sequence of length 0 or 1.  Prices are in 10^-9 dollars per *)
(* token, so that the table holds integers.                                *)
(***************************************************************************)
Id_gpt35_turbo_16k == <<"g", "p", "t", "-", "3", ".", "5", "-", "t", "u", "r", "b", "o", "-", "1", "6", "k">>
Id_gpt35_turbo == <<"g", "p", "t", "-", "3", ".", "5", "-", "t", "u", "r", "b", "o">>
Id_gpt4_32k == <<"g", "p", "t", "-", "4", "-", "3", "2", "k">>
Id_gpt4o_mini == <<"g", "p", "t", "-", "4", "o", "-", "m", "i", "n", "i">>
Id_gpt4o_2024_05_13 == <<"g", "p", "t", "-", "4", "o", "-", "2", "0", "2", "4", "-", "0", "5", "-", "1", "3">>
Id_chatgpt4o_latest == <<"c", "h", "a", "t", "g", "p", "t", "-", "4", "o", "-", "l", "a", "t", "e", "s", "t">>
Id_gpt4o == <<"g", "p", "t", "-", "4", "o">>
Id_gpt4_turbo == <<"g", "p", "t", "-", "4", "-", "t", "u", "r", "b", "o">>
Id_gpt4_dash == <<"g", "p", "t", "-", "4", "-">>
Id_dash_preview == <<"-", "p", "r", "e", "v", "i", "e", "w">>
Id_gpt4 == <<"g", "p", "t", "-", "4">>
Id_o1_preview == <<"o", "1", "-", "p", "r", "e", "v", "i", "e", "w">>
Id_o1_mini == <<"o", "1", "-", "m", "i", "n", "i">>
Id_oai_compat == <<"o", "a", "i", "-", "c", "o", "m", "p", "a", "t", ":">>

Digits == {"0", "1", "2", "3", "4", "5", "6", "7", "8", "9"}

\* str.startswith(prefix)
StartsWith(s, prefix) == IsAt(s, 1, prefix)

\* re.match(r"gpt-4-\d\d\d\d-preview", model)
MatchesDatedPreview(model) ==
    /\ StartsWith(model, Id_gpt4_dash)
    /\ Len(model) >= Len(Id_gpt4_dash) + 4
    /\ \A i \in 1..4 : model[Len(Id_gpt4_dash) + i] \in Digits
    /\ IsAt(model, Len(Id_gpt4_dash) + 5, Id_dash_preview)

MODEL_PRICING ==
    ( "gpt-3.5" :>
        ( "standard" :> [prompt |-> 500, response |-> 1500] @@
          "16k" :> [prompt |-> 3000, response |-> 4000] ) ) @@
    ( "gpt-4" :>
        ( "standard" :> [prompt |-> 30000, response |-> 60000] @@
          "32k" :> [prompt |-> 60000, response |-> 120000] @@
          "turbo" :> [prompt |-> 10000, response |-> 30000] @@
          "o-2024-05-13" :> [prompt |-> 5000, response |-> 15000] @@
          "o-2024-08-06" :> [prompt |-> 2500, response |-> 10000] @@
          "o-mini" :> [prompt |-> 150, response |-> 600] ) ) @@
    ( "o1" :>
        ( "preview" :> [prompt |-> 15000, response |-> 60000] @@
          "mini" :> [prompt |-> 3000, response |-> 12000] ) )

\* a mutant of gpt_pricing: the bare gpt-4o prefix is tested before the
\* dated gpt-4o-2024-05-13 one
gpt_pricing_general_first(model) ==
    IF StartsWith(model, Id_gpt35_turbo_16k) THEN <<MODEL_PRICING["gpt-3.5"]["16k"]>>
    ELSE IF StartsWith(model, Id_gpt35_turbo) THEN <<MODEL_PRICING["gpt-3.5"]["standard"]>>
    ELSE IF StartsWith(model, Id_gpt4_32k) THEN <<MODEL_PRICING["gpt-4"]["32k"]>>
    ELSE IF StartsWith(model, Id_gpt4o_mini) THEN <<MODEL_PRICING["gpt-4"]["o-mini"]>>
    ELSE IF StartsWith(model, Id_gpt4o) THEN <<MODEL_PRICING["gpt-4"]["o-2024-08-06"]>>
    ELSE IF StartsWith(model, Id_gpt4o_2024_05_13)
            \/ StartsWith(model, Id_chatgpt4o_latest)
    THEN <<MODEL_PRICING["gpt-4"]["o-2024-05-13"]>>
    ELSE IF StartsWith(model, Id_gpt4_turbo) \/ MatchesDatedPreview(model)
    THEN <<MODEL_PRICING["gpt-4"]["turbo"]>>
    ELSE IF StartsWith(model, Id_gpt4) THEN <<MODEL_PRICING["gpt-4"]["standard"]>>
    ELSE IF StartsWith(model, Id_o1_preview) THEN <<MODEL_PRICING["o1"]["preview"]>>
    ELSE IF StartsWith(model, Id_o1_mini) THEN <<MODEL_PRICING["o1"]["mini"]>>
    ELSE <<>>

gpt_pricing(model) ==
    IF StartsWith(model, Id_gpt35_turbo_16k) THEN <<MODEL_PRICING["gpt-3.5"]["16k"]>>
    ELSE IF StartsWith(model, Id_gpt35_turbo) THEN <<MODEL_PRICING["gpt-3.5"]["standard"]>>
    ELSE IF StartsWith(model, Id_gpt4_32k) THEN <<MODEL_PRICING["gpt-4"]["32k"]>>
    ELSE IF StartsWith(model, Id_gpt4o_mini) THEN <<MODEL_PRICING["gpt-4"]["o-mini"]>>
    ELSE IF StartsWith(model, Id_gpt4o_2024_05_13)
            \/ StartsWith(model, Id_chatgpt4o_latest)
    THEN <<MODEL_PRICING["gpt-4"]["o-2024-05-13"]>>
    ELSE IF StartsWith(model, Id_gpt4o) THEN <<MODEL_PRICING["gpt-4"]["o-2024-08-06"]>>
    ELSE IF StartsWith(model, Id_gpt4_turbo) \/ MatchesDatedPreview(model)
    THEN <<MODEL_PRICING["gpt-4"]["turbo"]>>
    ELSE IF StartsWith(model, Id_gpt4) THEN <<MODEL_PRICING["gpt-4"]["standard"]>>
    ELSE IF StartsWith(model, Id_o1_preview) THEN <<MODEL_PRICING["o1"]["preview"]>>
    ELSE IF StartsWith(model, Id_o1_mini) THEN <<MODEL_PRICING["o1"]["mini"]>>
    ELSE <<>>

\* the model ids gpt_pricing is applied to: a base followed by a suffix
ModelBases ==
    { <<>>, <<"g", "p", "t", "-", "3">>,
      <<"g", "p", "t", "-", "3", ".", "5">>,
      <<"g", "p", "t", "-", "3", ".", "5", "-", "t", "u", "r", "b", "o">>,
      <<"g", "p", "t", "-", "3", ".", "5", "-", "t", "u", "r", "b", "o", "-", "1", "6", "k">>,
      <<"g", "p", "t", "-", "4">>,
      <<"g", "p", "t", "-", "4", "-", "3", "2", "k">>,
      <<"g", "p", "t", "-", "4", "o">>,
      <<"g", "p", "t", "-", "4", "o", "-", "m", "i", "n", "i">>,
      <<"g", "p", "t", "-", "4", "o", "-", "2", "0", "2", "4", "-", "0", "5", "-", "1", "3">>,
      <<"g", "p", "t", "-", "4", "o", "-", "2", "0", "2", "4", "-", "0", "8", "-", "0", "6">>,
      <<"c", "h", "a", "t", "g", "p", "t", "-", "4", "o", "-", "l", "a", "t", "e", "s", "t">>,
      <<"g", "p", "t", "-", "4", "-", "t", "u", "r", "b", "o">>,
      <<"g", "p", "t", "-", "4", "-", "1", "1", "0", "6", "-", "p", "r", "e", "v", "i", "e", "w">>,
      <<"g", "p", "t", "-", "4", "-", "1", "1", "-", "p", "r", "e", "v", "i", "e", "w">>,
      <<"o", "1">>, <<"o", "1", "-", "p", "r", "e", "v", "i", "e", "w">>,
      <<"o", "1", "-", "m", "i", "n", "i">>,
      <<"c", "l", "a", "u", "d", "e", "-", "3">>,
      <<"o", "a", "i", "-", "c", "o", "m", "p", "a", "t", ":", "g", "p", "t", "-", "4", "o">>,
      <<"G", "P", "T", "-", "4">> }

ModelSuffixes ==
    { <<>>, <<"-", "0", "6", "1", "3">>, <<"-", "1", "6", "k">>, <<"o">>,
      <<"-", "m", "i", "n", "i">>,
      <<"-", "2", "0", "2", "4", "-", "0", "5", "-", "1", "3">>,
      <<"-", "p", "r", "e", "v", "i", "e", "w">>,
      <<"-", "1", "1", "0", "6", "-", "p", "r", "e", "v", "i", "e", "w">> }

PricingModels == { b \o s : b \in ModelBases, s \in ModelSuffixes }

InitPricing ==
    /\ pricing_model \in PricingModels
    /\ pricing = <<>>
    /\ rpc = "start"

ResolvePricing ==
    /\ rpc = "start"
    /\ pricing' = gpt_pricing(pricing_model)
    /\ rpc' = "done"
    /\ UNCHANGED pricing_model
    /\ UNCHANGED <<parseVars, printerVars, completeVars,
                   listenerVars, inputVars>>

\* no call of gpt_pricing is under way
PricingIdle ==
    /\ pricing_model = <<>>
    /\ pricing = <<>>
    /\ rpc = "idle"

(***************************************************************************)
(* StreamingMarkdownPrinter (gptcli/cli.py)                                *)
(***************************************************************************)
\* a mutant of StripFirstToken: a leading space is removed from every
\* fragment, not only from the first one
StripEveryToken(first, text) ==
    IF StartsWith(text, <<SP>>) THEN Tail(text) ELSE text

\* if self.first_token and text.startswith(" "): text = text[1:]
StripFirstToken(first, text) ==
    IF first /\ StartsWith(text, <<SP>>) THEN Tail(text) ELSE text

\* the fragments handed to print
Fragments ==
    { <<>>, <<SP>>, <<"a">>, <<SP, "a">>, <<SP, SP, "a">>, <<"a", SP>>,
      <<BT, BT, BT>>, <<"\n">> }

\* Text(text, style=...) and CustomMarkdown(text, ...), as renderables
Text(text, style) == [kind |-> "Text", text |-> text, style |-> style]

CustomMarkdown(text) == [kind |-> "CustomMarkdown", text |-> text, style |-> ""]

\* text.count of three backticks: occurrences that do not overlap, counted
\* from the left
RECURSIVE CountFences(_, _)
CountFences(text, pos) ==
    IF pos + 2 > Len(text) THEN 0
    ELSE IF IsAt(text, pos, <<BT, BT, BT>>)
         THEN 1 + CountFences(text, pos + 3)
         ELSE CountFences(text, pos + 1)

\* a mutant of TempText: the closing fence is appended to every text
TempTextAlwaysClosed(text) == text \o <<"\n", BT, BT, BT>>

\* temp_text of _render_partial_markdown
TempText(text) ==
    IF CountFences(text, 1) % 2 = 1
    THEN text \o <<"\n", BT, BT, BT>>
    ELSE text

\* the texts on which the constructor of CustomMarkdown may raise
UnparsableTexts == { <<"a">>, <<BT, BT, BT, "\n", BT, BT, BT>> }

\* CustomMarkdown(temp_text, ...) raises
Raises(temp_text, bad) == bad = <<temp_text>>

\* StreamingMarkdownPrinter._render_partial_markdown
_render_partial_markdown(md, text, bad) ==
    IF ~md THEN Text(text, "")
    ELSE IF Raises(TempText(text), bad) THEN Text(text, "")
    ELSE CustomMarkdown(TempText(text))

\* the loop of _render_chat_history over chat_history
RECURSIVE RenderEntries(_, _, _)
RenderEntries(md, history, bad) ==
    IF history = <<>> THEN <<>>
    ELSE LET text == Head(history)[1]
             role == Head(history)[2]
         IN  (IF role = "user"
              THEN << Text(<<"\n", ">", SP>> \o text \o <<"\n">>,
                           "bold green") >>
              ELSE << IF md THEN _render_partial_markdown(md, text, bad)
                      ELSE Text(text, ""),
                      Text(<<"\n">>, "") >>)
             \o RenderEntries(md, Tail(history), bad)

\* StreamingMarkdownPrinter._render_chat_history: the members of the Group
_render_chat_history(md, history, cur, bad) ==
    RenderEntries(md, history, bad) \o
    (IF cur # <<>>
     THEN << IF md THEN _render_partial_markdown(md, cur, bad)
             ELSE Text(cur, "") >>
     ELSE <<>>)

\* the calls of _render_partial_markdown that _render_chat_history makes in
\* markdown mode, in order: the text given and the text handed to
\* CustomMarkdown
RECURSIVE HandedOf(_)
HandedOf(texts) ==
    IF texts = <<>> THEN <<>>
    ELSE <<[text |-> Head(texts), temp_text |-> TempText(Head(texts))]>>
         \o HandedOf(Tail(texts))

RECURSIVE AssistantTexts(_)
AssistantTexts(history) ==
    IF history = <<>> THEN <<>>
    ELSE (IF Head(history)[2] = "user" THEN <<>> ELSE <<Head(history)[1]>>)
         \o AssistantTexts(Tail(history))

RenderCalls(md, history, cur) ==
    IF ~md THEN <<>>
    ELSE HandedOf(AssistantTexts(history)
                  \o (IF cur # <<>> THEN <<cur>> ELSE <<>>))

\* StreamingMarkdownPrinter.__init__
InitPrinter ==
    /\ current_text = <<>>
    /\ first_token = TRUE
    /\ live = "None"
    /\ console_live = FALSE
    /\ chat_history = <<>>
    /\ fragments = <<>>
    /\ markdown \in BOOLEAN
    /\ view = <<>>
    /\ handed = <<>>
    /\ unparsable \in {<<>>} \cup { <<t>> : t \in UnparsableTexts }
    /\ (~markdown => unparsable = <<>>)

\* Live.__enter__ of a Live made for the Console: a Console has one live
\* display at a time, so the Live starts when the Console has none, and
\* LiveError is raised, the Live not started, when it has one
LiveStarts == ~console_live

\* StreamingMarkdownPrinter.__enter__: self.live is bound to a new Live,
\* whatever it held, and the Live is entered.  live is "started" when the
\* Live has started, and "made" when LiveError left __enter__: the Live
\* that the Console showed before stays its live display
Enter ==
    /\ live' = IF LiveStarts THEN "started" ELSE "made"
    /\ console_live' = TRUE
    /\ UNCHANGED <<current_text, first_token, chat_history, fragments,
                   markdown, view, handed, unparsable>>

\* StreamingMarkdownPrinter.print(text)
PrintFragment(text) ==
    /\ current_text' = current_text \o StripFirstToken(first_token, text)
    /\ fragments' = Append(fragments, text)
    /\ first_token' = FALSE
    /\ view' = _render_chat_history(markdown, chat_history, current_text',
                                    unparsable)
    /\ handed' = RenderCalls(markdown, chat_history, current_text')
    /\ UNCHANGED <<live, console_live, chat_history, markdown, unparsable>>

\* StreamingMarkdownPrinter.add_to_history
add_to_history(history, text, role) == Append(history, <<text, role>>)

\* StreamingMarkdownPrinter.__exit__: if self.live (a Live object, started
\* or not, is true), the live text, if any, is added to the history and
\* the Live is left: a started Live stops and the Console has no live
\* display any more; on a Live that is not started this does nothing
Exit ==
    /\ (live # "None" /\ current_text # <<>>) =>
          Len(chat_history) < MaxHistory
    /\ IF live # "None"
       THEN /\ chat_history' =
                  IF current_text # <<>>
                  THEN add_to_history(chat_history, current_text, "assistant")
                  ELSE chat_history
            /\ IF live = "started"
               THEN live' = "stopped" /\ console_live' = FALSE
               ELSE UNCHANGED <<live, console_live>>
       ELSE UNCHANGED <<chat_history, live, console_live>>
    /\ UNCHANGED <<current_text, first_token, fragments,
                   markdown, view, handed, unparsable>>

\* a call of __enter__ on the printer
PrinterEnter ==
    /\ Enter
    /\ UNCHANGED <<parseVars, pricingVars, completeVars,
                   listenerVars, inputVars>>

\* a call of print on the printer
PrinterPrint ==
    /\ Len(fragments) < MaxPrints
    /\ \E text \in Fragments : PrintFragment(text)
    /\ UNCHANGED <<parseVars, pricingVars, completeVars,
                   listenerVars, inputVars>>

\* a call of __exit__ on the printer
PrinterExit ==
    /\ Exit
    /\ UNCHANGED <<parseVars, pricingVars, completeVars,
                   listenerVars, inputVars>>

(***************************************************************************)
(* OpenAICompletionProvider.complete (gptcli/providers/openai.py)          *)
(*                                                                         *)
(* complete is a generator: it runs when its consumer calls next() and    *)
(* stops at each yield statement.  cpc is its position: "start" (made, not *)
(* yet run), "streaming" (running, waiting for the next chunk of the       *)
(* stream), "suspended" (stopped at a yield), "done" (returned), "raised"  *)
(* (left by an exception), "closed" (closed by its consumer).  origin      *)
(* records, for every event, the chunk it came from and the line of the    *)
(* yield statement that produced it.                                       *)
(***************************************************************************)
\* model ids given as args["model"]
Id_sonar == <<"s", "o", "n", "a", "r">>

CompleteModels ==
    { Id_gpt4o, Id_gpt35_turbo_16k, Id_oai_compat \o Id_gpt4o, Id_sonar }

\* if model.startswith("oai-compat:"): model = model[len("oai-compat:"):]
DispatchModel(m) ==
    IF StartsWith(m, Id_oai_compat)
    THEN SubSeq(m, Len(Id_oai_compat) + 1, Len(m))
    ELSE m

\* truth value of an optional string or list
Truthy(opt) == opt # <<>> /\ opt[1] # <<>>

FinishReasons == { <<>>, <<"stop">> }
Contents == { <<>>, << <<>> >>, << <<"a">> >> }
Usages ==
    { <<>>,
      << [prompt_tokens |-> 1, completion_tokens |-> 2, total_tokens |-> 3] >>,
      << [prompt_tokens |-> 2, completion_tokens |-> 1, total_tokens |-> 3] >> }
CitationLists == { <<>>, << <<>> >>, << << <<"u">>, <<"v">> >> >> }

Choices ==
    {<<>>} \cup
    { <<[finish_reason |-> f, content |-> c]>> : f \in FinishReasons, c \in Contents }

\* a chunk of the stream: choices[0].delta.content is content; citations is
\* empty when the chunk has no such attribute
Chunks ==
    { [choices |-> ch, usage |-> u, citations |-> ci] :
        ch \in Choices, u \in Usages, ci \in CitationLists }

\* a non-streaming response: choices[0].message.content is content
Responses ==
    { [choices |-> ch, usage |-> u, citations |-> <<>>] :
        ch \in {<<>>} \cup { <<[finish_reason |-> <<"stop">>, content |-> c]>> :
                                c \in Contents },
        u \in Usages }

MessageDeltaEvent(text) == [type |-> "MessageDeltaEvent", text |-> text]

\* UsageEvent.with_pricing(prompt_tokens=..., completion_tokens=...,
\* total_tokens=..., pricing=...)
UsageEvent(usage, tier) ==
    [type |-> "UsageEvent",
     prompt_tokens |-> usage.prompt_tokens,
     completion_tokens |-> usage.completion_tokens,
     total_tokens |-> usage.total_tokens,
     pricing |-> tier]

\* a mutant of HasContentDelta: the finish_reason of the chunk is not tested
HasContentDeltaAnyFinish(chunk) ==
    /\ Len(chunk.choices) > 0
    /\ Truthy(chunk.choices[1].content)

\* len(response.choices) > 0 and response.choices[0].finish_reason is None
\* and response.choices[0].delta.content
HasContentDelta(chunk) ==
    /\ Len(chunk.choices) > 0
    /\ chunk.choices[1].finish_reason = <<>>
    /\ Truthy(chunk.choices[1].content)

\* a mutant of UsagePricing: the tier of the dispatched (stripped) model id
UsagePricingOfDispatched(m) == gpt_pricing(DispatchModel(m))

\* pricing := gpt_pricing(args["model"])
UsagePricing(m) == gpt_pricing(m)

\* response.usage and (pricing := gpt_pricing(args["model"]))
HasUsage(chunk, m) == chunk.usage # <<>> /\ UsagePricing(m) # <<>>

\* len(response.choices) > 0 and response.choices[0].finish_reason, then
\* hasattr(response, "citations") and response.citations
HasCitations(chunk) ==
    /\ Len(chunk.choices) > 0
    /\ chunk.choices[1].finish_reason # <<>>
    /\ Truthy(chunk.citations)

\* str(i + 1) for the citation numbers
DecimalDigits == <<"1", "2", "3", "4", "5", "6", "7", "8", "9">>

\* "".join(f"{citation} [{i + 1}]{os.linesep}" for i, citation in ...)
RECURSIVE CitationLines(_, _)
CitationLines(citations, i) ==
    IF i >= Len(citations) THEN <<>>
    ELSE citations[i + 1] \o <<SP, "[", DecimalDigits[i + 1], "]", "\n">>
         \o CitationLines(citations, i + 1)

\* citations_text
CitationsText(citations) == <<"\n", "\n">> \o CitationLines(citations, 0)

\* the body of the streaming loop for one chunk: the events it yields, each
\* with the line of its yield statement
ChunkYields(chunk, m) ==
    (IF HasContentDelta(chunk)
     THEN <<[event |-> MessageDeltaEvent(chunk.choices[1].content[1]), line |-> 53]>>
     ELSE <<>>)
    \o
    (IF HasUsage(chunk, m)
     THEN <<[event |-> UsageEvent(chunk.usage[1], UsagePricing(m)[1]), line |-> 56]>>
     ELSE <<>>)
    \o
    (IF HasCitations(chunk)
     THEN <<[event |-> MessageDeltaEvent(CitationsText(chunk.citations[1])), line |-> 74]>>
     ELSE <<>>)

\* a mutant of HasMessageContent: the content is tested for None only
HasMessageContentNotNone(resp) == resp.choices[1].content # <<>>

\* if next_choice.message.content
HasMessageContent(resp) == Truthy(resp.choices[1].content)

\* the non-streaming branch for a response with at least one choice
ResponseYields(resp, m) ==
    (IF HasMessageContent(resp)
     THEN <<[event |-> MessageDeltaEvent(resp.choices[1].content[1]), line |-> 84]>>
     ELSE <<>>)
    \o
    (IF HasUsage(resp, m)
     THEN <<[event |-> UsageEvent(resp.usage[1], UsagePricing(m)[1]), line |-> 86]>>
     ELSE <<>>)

\* the exception classes: each class and its base class
ExceptionBases ==
    ( "openai.BadRequestError" :> "openai.APIStatusError" @@
      "openai.RateLimitError" :> "openai.APIStatusError" @@
      "openai.APIStatusError" :> "openai.APIError" @@
      "openai.APIConnectionError" :> "openai.APIError" @@
      "openai.APIError" :> "openai.OpenAIError" @@
      "openai.OpenAIError" :> "Exception" @@
      "httpx.RemoteProtocolError" :> "Exception" @@
      "IndexError" :> "Exception" )

\* the error classes of gptcli.completion and gptcli.session, which are
\* this program's own: none derives from a class of the SDK
CompletionErrorBases ==
    ( "gptcli.BadRequestError" :> "gptcli.CompletionError" @@
      "gptcli.CompletionError" :> "Exception" @@
      "gptcli.InvalidArgumentError" :> "Exception" )

ClassBases == ExceptionBases @@ CompletionErrorBases

RECURSIVE IsInstance(_, _)
IsInstance(cls, base) ==
    \/ cls = base
    \/ cls \in DOMAIN ClassBases /\ IsInstance(ClassBases[cls], base)

\* the failures create raises: the SDK raises its own error classes for a
\* rejected request and for a request it could not send
ProviderFailures ==
    { [type |-> t, message |-> m] :
        t \in {"openai.BadRequestError", "openai.RateLimitError",
               "openai.APIConnectionError"},
        m \in {"msg1", "msg2"} }

\* the failures the iteration over response_iter raises: an error event of
\* the stream is an SDK error; a transport failure while the body of the
\* stream is read is the HTTP library's own exception
StreamFailures ==
    ProviderFailures \cup
    { [type |-> "httpx.RemoteProtocolError", message |-> m] :
        m \in {"msg1", "msg2"} }

\* except openai.BadRequestError as e: raise BadRequestError(e.message)
\* except openai.APIError as e: raise CompletionError(e.message)
Raised(exc) ==
    IF IsInstance(exc.type, "openai.BadRequestError")
    THEN [type |-> "gptcli.BadRequestError", message |-> exc.message]
    ELSE IF IsInstance(exc.type, "openai.APIError")
    THEN [type |-> "gptcli.CompletionError", message |-> exc.message]
    ELSE exc

\* complete(messages, args, stream) is called; nothing has run yet
InitComplete ==
    /\ args_model \in CompleteModels
    /\ stream \in BOOLEAN
    /\ request = <<>>
    /\ response = <<>>
    /\ events = <<>>
    /\ origin = <<>>
    /\ delivered = 0
    /\ failure = <<>>
    /\ error = <<>>
    /\ pulls = 0
    /\ cpc = "start"

\* the request sent by self.client.chat.completions.create
Request == [model |-> DispatchModel(args_model), stream |-> stream]

\* create(stream=True) returns the stream
CreateStream ==
    /\ cpc = "start"
    /\ stream
    /\ request' = <<Request>>
    /\ cpc' = "streaming"
    /\ UNCHANGED <<args_model, stream, response, events, origin, delivered, failure,
                   error, pulls>>
    /\ UNCHANGED <<parseVars, pricingVars, printerVars,
                   listenerVars, inputVars>>

\* create raises
CreateFails ==
    /\ cpc = "start"
    /\ request' = <<Request>>
    /\ \E exc \in ProviderFailures :
          /\ failure' = <<exc>>
          /\ error' = <<Raised(exc)>>
    /\ cpc' = "raised"
    /\ UNCHANGED <<args_model, stream, response, events, origin, delivered, pulls>>
    /\ UNCHANGED <<parseVars, pricingVars, printerVars,
                   listenerVars, inputVars>>

\* the yields of the chunk or response at hand, in order
YieldsAtHand ==
    IF stream THEN ChunkYields(response[1], args_model)
    ELSE ResponseYields(response[1], args_model)

\* how many of them have been yielded
YieldedAtHand ==
    Cardinality({ i \in DOMAIN origin : origin[i].chunk = delivered })

\* the generator runs the code for chunk or response number k from its
\* n-th yield on: it stops at the next yield statement, or, when there is
\* none, goes on to after (the next iteration of the loop, or the end)
RunToYield(yields, k, n, after) ==
    IF n < Len(yields)
    THEN /\ events' = Append(events, yields[n + 1].event)
         /\ origin' = Append(origin, [chunk |-> k, line |-> yields[n + 1].line])
         /\ cpc' = "suspended"
    ELSE /\ cpc' = after
         /\ UNCHANGED <<events, origin>>

\* "for response in response_iter" receives a chunk, and the loop body runs
\* to its first yield
NextChunk ==
    /\ cpc = "streaming"
    /\ delivered < MaxChunks
    /\ \E chunk \in Chunks :
          /\ response' = <<chunk>>
          /\ RunToYield(ChunkYields(chunk, args_model), delivered + 1, 0,
                        "streaming")
    /\ delivered' = delivered + 1
    /\ UNCHANGED <<args_model, stream, request, failure, error, pulls>>
    /\ UNCHANGED <<parseVars, pricingVars, printerVars,
                   listenerVars, inputVars>>

\* next() on the generator stopped at a yield: it runs to the next yield of
\* the chunk or response at hand, or to the end of its code
Resume ==
    /\ cpc = "suspended"
    /\ RunToYield(YieldsAtHand, delivered, YieldedAtHand,
                  IF stream THEN "streaming" ELSE "done")
    /\ UNCHANGED <<args_model, stream, request, response, delivered, failure,
                   error, pulls>>
    /\ UNCHANGED <<parseVars, pricingVars, printerVars,
                   listenerVars, inputVars>>

\* close() on the generator before its first next() or while it is stopped
\* at a yield (the consumer leaves its loop): GeneratorExit is raised at the
\* yield, no except clause of complete takes it, and the generator is closed
Close ==
    /\ cpc \in {"start", "suspended"}
    /\ cpc' = "closed"
    /\ UNCHANGED <<args_model, stream, request, response, events, origin,
                   delivered, failure, error, pulls>>
    /\ UNCHANGED <<parseVars, pricingVars, printerVars,
                   listenerVars, inputVars>>

\* a mutant of StreamFails: the failing chunk is received in part and its
\* content is yielded before the failure is raised
StreamFailsAfterPartialChunk ==
    /\ cpc = "streaming"
    /\ \E exc \in StreamFailures :
          /\ failure' = <<exc>>
          /\ error' = <<Raised(exc)>>
    /\ events' = Append(events, MessageDeltaEvent(<<"a">>))
    /\ origin' = Append(origin, [chunk |-> delivered + 1, line |-> 53])
    /\ cpc' = "raised"
    /\ UNCHANGED <<args_model, stream, request, response, delivered, pulls>>
    /\ UNCHANGED <<parseVars, pricingVars, printerVars,
                   listenerVars, inputVars>>

\* the stream raises while delivering chunk delivered + 1
StreamFails ==
    /\ cpc = "streaming"
    /\ \E exc \in StreamFailures :
          /\ failure' = <<exc>>
          /\ error' = <<Raised(exc)>>
    /\ cpc' = "raised"
    /\ UNCHANGED <<args_model, stream, request, response, events, origin, delivered,
                   pulls>>
    /\ UNCHANGED <<parseVars, pricingVars, printerVars,
                   listenerVars, inputVars>>

\* the stream is exhausted
StreamEnds ==
    /\ cpc = "streaming"
    /\ cpc' = "done"
    /\ UNCHANGED <<args_model, stream, request, response, events, origin, delivered,
                   failure, error, pulls>>
    /\ UNCHANGED <<parseVars, pricingVars, printerVars,
                   listenerVars, inputVars>>

\* create(stream=False) returns a response and the else branch runs to its
\* first yield; response.choices[0] raises IndexError when there is no
\* choice
CompleteNonStream ==
    /\ cpc = "start"
    /\ ~stream
    /\ request' = <<Request>>
    /\ \E resp \in Responses :
          /\ response' = <<resp>>
          /\ IF resp.choices = <<>>
             THEN /\ error' = <<Raised([type |-> "IndexError",
                                        message |-> "list index out of range"])>>
                  /\ cpc' = "raised"
                  /\ UNCHANGED <<events, origin>>
             ELSE /\ RunToYield(ResponseYields(resp, args_model), 1, 0,
                                "done")
                  /\ UNCHANGED error
    /\ delivered' = 1
    /\ UNCHANGED <<args_model, stream, failure, pulls>>
    /\ UNCHANGED <<parseVars, pricingVars, printerVars,
                   listenerVars, inputVars>>

\* next() on the generator after it has returned or raised or was closed:
\* StopIteration
NextAfterEnd ==
    /\ cpc \in {"done", "raised", "closed"}
    /\ pulls < MaxPulls
    /\ pulls' = pulls + 1
    /\ UNCHANGED <<args_model, stream, request, response, events, origin, delivered,
                   failure, error, cpc>>
    /\ UNCHANGED <<parseVars, pricingVars, printerVars,
                   listenerVars, inputVars>>

\* no printer exists
PrinterIdle ==
    /\ current_text = <<>>
    /\ first_token = TRUE
    /\ live = "idle"
    /\ console_live = FALSE
    /\ chat_history = <<>>
    /\ fragments = <<>>
    /\ markdown = FALSE
    /\ view = <<>>
    /\ handed = <<>>
    /\ unparsable = <<>>

\* no call of complete is under way
CompleteIdle ==
    /\ args_model = <<>>
    /\ stream = FALSE
    /\ request = <<>>
    /\ response = <<>>
    /\ events = <<>>
    /\ origin = <<>>
    /\ delivered = 0
    /\ failure = <<>>
    /\ error = <<>>
    /\ pulls = 0
    /\ cpc = "idle"

(***************************************************************************)
(* CLIUserInputProvider.get_user_input (gptcli/cli.py)                     *)
(*                                                                         *)
(* A call of prompt_session.prompt ends with a line or with                *)
(* KeyboardInterrupt; prompts records, for every call of prompt, its mode, *)
(* how the session ended and the line that prompt returned.                *)
(***************************************************************************)
BACKSLASH == "\\"

\* the lines a prompt session returns
TypedLines ==
    { <<>>, <<BACKSLASH>>, <<"a">>, <<SP>>, <<DASH, DASH, "a">>,
      <<BACKSLASH, "a">> }

\* how a call of prompt_session.prompt ends
PromptOutcomes ==
    { [interrupt |-> TRUE, line |-> <<>>] } \cup
    { [interrupt |-> FALSE, line |-> l] : l \in TypedLines }

\* a mutant of prompt: no except clause for KeyboardInterrupt
prompt_uncaught(outcome) ==
    IF outcome.interrupt
    THEN [raises |-> TRUE, value |-> <<>>]
    ELSE [raises |-> FALSE, value |-> outcome.line]

\* CLIUserInputProvider.prompt: try: return self.prompt_session.prompt(...)
\* except KeyboardInterrupt: return ""
prompt(outcome) ==
    IF outcome.interrupt
    THEN [raises |-> FALSE, value |-> <<>>]
    ELSE [raises |-> FALSE, value |-> outcome.line]

\* a mutant of RequestAgain: the loop never asks again
RequestAgainNever(line) == FALSE

\* while (next_user_input := self._request_input()) == "": pass
RequestAgain(line) == line = <<>>

\* get_user_input has been called and is about to call _request_input
InitInput ==
    /\ prompts = <<>>
    /\ next_user_input = <<>>
    /\ upc = "prompt"
    /\ input = <<>>
    /\ extracted_parts = <<>>
    /\ out_text = <<>>
    /\ out_args = EmptyArgs
    /\ ppc = "idle"

\* _request_input has returned line: the loop asks again, or get_user_input
\* hands the line to _parse_input (parse_args) and returns
RequestReturns(line) ==
    /\ next_user_input' = line
    /\ IF RequestAgain(line)
       THEN /\ upc' = "prompt"
            /\ UNCHANGED parseVars
       ELSE /\ upc' = "returned"
            /\ input' = line
            /\ out_text' = parse_args(line).text
            /\ out_args' = parse_args(line).args
            /\ extracted_parts' = parse_args(line).parts
            /\ ppc' = "done"

\* an exception leaves get_user_input
RequestRaises ==
    /\ upc' = "raised"
    /\ UNCHANGED <<next_user_input, parseVars>>

\* _request_input: line = self.prompt(); if line != "\\": return line
PromptLine ==
    /\ upc = "prompt"
    /\ Len(prompts) < MaxPrompts
    /\ \E outcome \in PromptOutcomes :
          LET r == prompt(outcome)
          IN  /\ prompts' = Append(prompts,
                     [multiline |-> FALSE, interrupt |-> outcome.interrupt,
                      raises |-> r.raises, line |-> r.value])
              /\ IF r.raises THEN RequestRaises
                 ELSE IF r.value # <<BACKSLASH>> THEN RequestReturns(r.value)
                 ELSE /\ upc' = "multiline"
                      /\ UNCHANGED <<next_user_input, parseVars>>
    /\ UNCHANGED <<pricingVars, printerVars, completeVars, listenerVars>>

\* _request_input: return self.prompt(multiline=True)
PromptMultiline ==
    /\ upc = "multiline"
    /\ Len(prompts) < MaxPrompts
    /\ \E outcome \in PromptOutcomes :
          LET r == prompt(outcome)
          IN  /\ prompts' = Append(prompts,
                     [multiline |-> TRUE, interrupt |-> outcome.interrupt,
                      raises |-> r.raises, line |-> r.value])
              /\ IF r.raises THEN RequestRaises
                 ELSE RequestReturns(r.value)
    /\ UNCHANGED <<pricingVars, printerVars, completeVars, listenerVars>>

(***************************************************************************)
(* CLIChatListener and CLIResponseStreamer (gptcli/cli.py)                 *)
(*                                                                         *)
(* Every call of response_streamer makes a streamer with a printer of its  *)
(* own on the listener's Console, and every streamer made stays usable:    *)
(* printers holds, for each of them in the order they were made, the       *)
(* fields of its printer and the tokens given to it.  markdown is the      *)
(* listener's flag, which every printer gets, and console_live tells       *)
(* whether the listener's Console has a started live display.              *)
(* current_printer is an optional value: <<>> for None, <<i>> for a        *)
(* reference to the printer of streamer i.                                 *)
(* console holds what was printed on the listener's console, one record    *)
(* for every call of console.print: the kind of object printed ("str",     *)
(* "CustomMarkdown", or "" for a call without arguments) and its text; the *)
(* line of on_error is held as its wording, the class of the error and the *)
(* error's message.                                                        *)
(***************************************************************************)
TERMINAL_WELCOME == "\n>\n"

\* what console.print is given
Printed(object, text) ==
    [object |-> object, text |-> text, type |-> "", message |-> ""]

\* the tokens given to on_next_token
StreamTokens == { <<SP, "a">>, <<"a">> }

\* the messages given to on_chat_message
Messages ==
    { [role |-> r, content |-> <<"a">>] : r \in {"user", "assistant"} }

\* CLIChatListener.on_error: the line printed on the console, where
\* BadRequestError and OpenAIError are the classes imported from openai
on_error(e) ==
    IF IsInstance(e.type, "openai.BadRequestError")
    THEN [object |-> "str",
          text |-> "Request Error. The last prompt was not saved",
          type |-> e.type, message |-> e.message]
    ELSE IF IsInstance(e.type, "openai.OpenAIError")
    THEN [object |-> "str",
          text |-> "API Error. Type r or Ctrl-R to try again",
          type |-> e.type, message |-> e.message]
    ELSE IF IsInstance(e.type, "gptcli.InvalidArgumentError")
    THEN [object |-> "str", text |-> "", type |-> "", message |-> e.message]
    ELSE [object |-> "str", text |-> "Error", type |-> e.type,
          message |-> e.message]

\* self.console.print(...)
ConsolePrint(item) ==
    /\ Len(console) < MaxConsole
    /\ console' = Append(console, item)

\* the exceptions given to on_error: for each of its branches, one of a
\* class the branch takes
Exceptions ==
    { [type |-> t, message |-> "msg1"] :
        t \in {"openai.BadRequestError", "openai.APIConnectionError",
               "gptcli.InvalidArgumentError", "Exception"} }

\* CLIChatListener.on_error(e)
OnError ==
    /\ \E e \in Exceptions : ConsolePrint(on_error(e))
    /\ UNCHANGED <<current_printer, messages, printers>>
    /\ UNCHANGED <<parseVars, pricingVars, printerVars, completeVars,
                   inputVars>>

\* the error that complete raised is given to on_error
OnCompleteError ==
    /\ cpc = "raised"
    /\ ConsolePrint(on_error(error[1]))
    /\ UNCHANGED <<current_printer, messages, printers>>
    /\ UNCHANGED <<parseVars, pricingVars, printerVars, completeVars,
                   inputVars>>

\* CLIChatListener.on_chat_start
OnChatStart ==
    /\ ConsolePrint(Printed("CustomMarkdown", TERMINAL_WELCOME))
    /\ UNCHANGED <<current_printer, messages, printers>>
    /\ UNCHANGED <<parseVars, pricingVars, printerVars, completeVars,
                   inputVars>>

\* CLIChatListener.on_chat_clear
OnChatClear ==
    /\ ConsolePrint(Printed("str", "[bold]Cleared the conversation.[/bold]"))
    /\ UNCHANGED <<current_printer, messages, printers>>
    /\ UNCHANGED <<parseVars, pricingVars, printerVars, completeVars,
                   inputVars>>

\* CLIChatListener.on_chat_rerun(success)
OnChatRerun ==
    /\ \E success \in BOOLEAN :
          ConsolePrint(Printed("str",
             IF success THEN "[bold]Re-running the last message.[/bold]"
             ELSE "[bold]Nothing to re-run.[/bold]"))
    /\ UNCHANGED <<current_printer, messages, printers>>
    /\ UNCHANGED <<parseVars, pricingVars, printerVars, completeVars,
                   inputVars>>

\* CLIChatListener.__init__
InitListener ==
    /\ current_printer = <<>>
    /\ console = <<>>
    /\ messages = 0
    /\ printers = <<>>
    /\ current_text = <<>>
    /\ first_token = TRUE
    /\ live = "idle"
    /\ console_live = FALSE
    /\ chat_history = <<>>
    /\ fragments = <<>>
    /\ markdown \in BOOLEAN
    /\ view = <<>>
    /\ handed = <<>>
    /\ unparsable = <<>>

\* StreamingMarkdownPrinter.__init__, as a value: the fields of the printer
\* and the tokens given to it so far
NewPrinter ==
    [current_text |-> <<>>, first_token |-> TRUE, live |-> "None",
     chat_history |-> <<>>, fragments |-> <<>>, view |-> <<>>,
     handed |-> <<>>]

\* StreamingMarkdownPrinter.__enter__ on the printer p: self.live is bound
\* to a new Live, which starts, or is left not started by LiveError
__enter__(p, starts) ==
    [p EXCEPT !.live = IF starts THEN "started" ELSE "made"]

\* StreamingMarkdownPrinter.print(text) on the printer p
print(p, text, md) ==
    LET cur == p.current_text \o StripFirstToken(p.first_token, text)
    IN  [p EXCEPT !.current_text = cur,
                  !.fragments = Append(p.fragments, text),
                  !.first_token = FALSE,
                  !.view = _render_chat_history(md, p.chat_history, cur, <<>>),
                  !.handed = RenderCalls(md, p.chat_history, cur)]

\* StreamingMarkdownPrinter.__exit__ on the printer p
__exit__(p) ==
    IF p.live = "None" THEN p
    ELSE [p EXCEPT !.chat_history =
                      IF p.current_text # <<>>
                      THEN add_to_history(p.chat_history, p.current_text,
                                          "assistant")
                      ELSE p.chat_history,
                   !.live = IF p.live = "started" THEN "stopped" ELSE p.live]

\* the number of tokens given to the streamers, and of entries in the
\* histories of their printers, in all
RECURSIVE Streamed(_)
Streamed(ps) ==
    IF ps = <<>> THEN 0 ELSE Len(Head(ps).fragments) + Streamed(Tail(ps))

RECURSIVE Entries(_)
Entries(ps) ==
    IF ps = <<>> THEN 0 ELSE Len(Head(ps).chat_history) + Entries(Tail(ps))

\* the variables of a printer on its own, which the listener does not use
printerFields ==
    <<current_text, first_token, live, chat_history, fragments, markdown,
      view, handed, unparsable>>

\* CLIChatListener.on_chat_message
OnChatMessage ==
    /\ messages < MaxMessages
    /\ messages' = messages + 1
    /\ \E message \in Messages :
          printers' =
             IF current_printer # <<>> /\ message.role = "user"
             THEN [printers EXCEPT ![current_printer[1]].chat_history =
                      add_to_history(@, message.content, "user")]
             ELSE printers
    /\ UNCHANGED <<current_printer, console, console_live, printerFields>>
    /\ UNCHANGED <<parseVars, pricingVars, completeVars, inputVars>>

\* a mutant of ResponseStreamer: the new printer is registered as
\* current_printer
ResponseStreamerRegisters ==
    /\ Len(printers) < MaxStreamers
    /\ printers' = Append(printers, NewPrinter)
    /\ current_printer' = <<Len(printers) + 1>>
    /\ UNCHANGED <<console, messages, console_live, printerFields>>
    /\ UNCHANGED <<parseVars, pricingVars, completeVars, inputVars>>

\* CLIChatListener.response_streamer: a new CLIResponseStreamer, whose
\* __init__ makes a printer on the listener's Console
ResponseStreamer ==
    /\ Len(printers) < MaxStreamers
    /\ printers' = Append(printers, NewPrinter)
    /\ UNCHANGED <<current_printer, console, messages, console_live,
                   printerFields>>
    /\ UNCHANGED <<parseVars, pricingVars, completeVars, inputVars>>

\* CLIResponseStreamer.__enter__ of streamer i: self.printer.__enter__(),
\* then self.console.print(), which is not reached when LiveError leaves
\* the printer's __enter__
StreamerEnter ==
    /\ \E i \in DOMAIN printers :
          printers' = [printers EXCEPT ![i] = __enter__(@, LiveStarts)]
    /\ console_live' = TRUE
    /\ IF LiveStarts THEN ConsolePrint(Printed("", ""))
       ELSE UNCHANGED console
    /\ UNCHANGED <<current_printer, messages, printerFields>>
    /\ UNCHANGED <<parseVars, pricingVars, completeVars, inputVars>>

\* CLIResponseStreamer.on_next_token of streamer i
OnNextToken ==
    /\ \E i \in DOMAIN printers :
          /\ Streamed(printers) < MaxStreamed
          /\ \E token \in StreamTokens :
                printers' = [printers EXCEPT ![i] = print(@, token, markdown)]
    /\ UNCHANGED <<current_printer, console, messages, console_live,
                   printerFields>>
    /\ UNCHANGED <<parseVars, pricingVars, completeVars, inputVars>>

\* CLIResponseStreamer.__exit__ of streamer i: a started Live stops and
\* the Console has no live display any more
StreamerExit ==
    /\ \E i \in DOMAIN printers :
          /\ (printers[i].live # "None" /\ printers[i].current_text # <<>>) =>
                Entries(printers) < MaxHistory
          /\ printers' = [printers EXCEPT ![i] = __exit__(@)]
          /\ console_live' =
                IF printers[i].live = "started" THEN FALSE ELSE console_live
    /\ UNCHANGED <<current_printer, console, messages, printerFields>>
    /\ UNCHANGED <<parseVars, pricingVars, completeVars, inputVars>>

\* a listener that has printed nothing and made no streamer
ListenerIdle ==
    /\ current_printer = <<>>
    /\ console = <<>>
    /\ messages = 0
    /\ printers = <<>>

\* no call of get_user_input is under way
InputIdle ==
    /\ prompts = <<>>
    /\ next_user_input = <<>>
    /\ upc = "idle"

(***************************************************************************)
(* Specifications                                                          *)
(***************************************************************************)
\* each specification runs one part of the program; the others stay idle
InitParseOnly ==
    InitParse /\ PricingIdle /\ PrinterIdle /\ CompleteIdle /\ ListenerIdle
    /\ InputIdle

NextParse == ParseArgs

SpecParse == InitParseOnly /\ [][NextParse]_vars

InitPricingOnly ==
    InitPricing /\ ParseIdle /\ PrinterIdle /\ CompleteIdle /\ ListenerIdle
    /\ InputIdle

NextPricing == ResolvePricing

SpecPricing == InitPricingOnly /\ [][NextPricing]_vars

InitPrinterOnly ==
    InitPrinter /\ ParseIdle /\ PricingIdle /\ CompleteIdle /\ ListenerIdle
    /\ InputIdle

NextPrinter ==
    \/ PrinterEnter
    \/ PrinterPrint
    \/ PrinterExit

SpecPrinter == InitPrinterOnly /\ [][NextPrinter]_vars

InitCompleteOnly ==
    InitComplete /\ ParseIdle /\ PricingIdle /\ PrinterIdle /\ ListenerIdle
    /\ InputIdle

NextComplete ==
    \/ CreateStream
    \/ CreateFails
    \/ NextChunk
    \/ Resume
    \/ Close
    \/ StreamFails
    \/ StreamEnds
    \/ CompleteNonStream
    \/ NextAfterEnd

SpecComplete == InitCompleteOnly /\ [][NextComplete]_vars

InitInputOnly ==
    InitInput /\ PricingIdle /\ PrinterIdle /\ CompleteIdle /\ ListenerIdle

NextInput ==
    \/ PromptLine
    \/ PromptMultiline

SpecInput == InitInputOnly /\ [][NextInput]_vars

InitListenerOnly ==
    InitListener /\ ParseIdle /\ PricingIdle /\ CompleteIdle /\ InputIdle

NextListener ==
    \/ OnChatMessage
    \/ OnChatStart
    \/ OnChatClear
    \/ OnChatRerun
    \/ OnError
    \/ ResponseStreamer
    \/ StreamerEnter
    \/ OnNextToken
    \/ StreamerExit

SpecListener == InitListenerOnly /\ [][NextListener]_vars

\* a call of complete whose error, if it raises one, is shown by on_error
\* of a listener that may print its other notices before and after
NextErrorDisplay ==
    \/ CreateStream
    \/ CreateFails
    \/ NextChunk
    \/ Resume
    \/ Close
    \/ StreamFails
    \/ StreamEnds
    \/ CompleteNonStream
    \/ NextAfterEnd
    \/ OnCompleteError
    \/ OnChatStart
    \/ OnChatClear
    \/ OnChatRerun

SpecErrorDisplay == InitCompleteOnly /\ [][NextErrorDisplay]_vars

(***************************************************************************)
(* Claims about parse_args                                                 *)
(***************************************************************************)
\* sub occurs in s
Contains(s, sub) == \E p \in 1..Len(s) : IsAt(s, p, sub)

\* the letters and digits among the input characters
Letters == InputChars \cap WordChars

\* a --NAME token starts at p
FlagTokenAt(s, p) ==
    IsAt(s, p, <<DASH, DASH>>) /\ p + 2 <= Len(s) /\ s[p + 2] \in Letters

\* the names of the --NAME tokens of s
FlagNames(s) ==
    { SubSeq(s, p + 2, RunEnd(s, p + 2, Letters) - 1) :
        p \in { q \in 1..Len(s) : FlagTokenAt(s, q) } }

\* the line outside its literal spans, a span shown as one "SPAN" element
OutsideSpans(line) ==
    [i \in DOMAIN SubLiterals(line, 1, <<>>, <<>>).text |->
        IF SubLiterals(line, 1, <<>>, <<>>).text[i] \in Placeholders
        THEN "SPAN" ELSE SubLiterals(line, 1, <<>>, <<>>).text[i]]

\* C1: when a --NAME token lies inside a literal span, the returned options
\* have no key NAME on account of it, and the returned text holds the span
\* with its delimiters and its content, trimmed once at both ends.
C1_FlagInSpanIsLiteral ==
    ppc = "done" =>
        \A i \in 1..Len(extracted_parts) :
            LET part == extracted_parts[i][1]
                d == extracted_parts[i][2]
            IN  FlagNames(part) # {} =>
                    /\ Contains(out_text, d \o Strip(part) \o d)
                    /\ \A name \in FlagNames(part) :
                          name \in DOMAIN out_args =>
                              name \in FlagNames(OutsideSpans(input))

\* the first half of C1 alone: no option is caused by a token inside a span
C1_NoOptionFromSpan ==
    ppc = "done" =>
        \A i \in 1..Len(extracted_parts) :
            \A name \in FlagNames(extracted_parts[i][1]) :
                name \in DOMAIN out_args =>
                    name \in FlagNames(OutsideSpans(input))

\* s is plain text and at least one span d...d, all of the kind d: outside
\* the spans there is no backtick and no triple quote
RECURSIVE SameKindPairs(_, _, _, _)
SameKindPairs(s, pos, d, n) ==
    IF pos > Len(s) THEN n >= 1
    ELSE IF IsAt(s, pos, d)
    THEN /\ FindFrom(s, pos + Len(d), d) # 0
         /\ SameKindPairs(s, FindFrom(s, pos + Len(d), d) + Len(d), d, n + 1)
    ELSE /\ s[pos] # BT
         /\ ~IsAt(s, pos, <<DQ, DQ, DQ>>)
         /\ SameKindPairs(s, pos + 1, d, n)

\* the text of s outside its d...d spans, a span shown as one "SPAN" element
RECURSIVE OutsidePairs(_, _, _)
OutsidePairs(s, pos, d) ==
    IF pos > Len(s) THEN <<>>
    ELSE IF IsAt(s, pos, d) /\ FindFrom(s, pos + Len(d), d) # 0
    THEN <<"SPAN">> \o OutsidePairs(s, FindFrom(s, pos + Len(d), d) + Len(d), d)
    ELSE <<s[pos]>> \o OutsidePairs(s, pos + 1, d)

\* no content of a d...d span of s begins or ends with whitespace
RECURSIVE SpansTrimmed(_, _, _)
SpansTrimmed(s, pos, d) ==
    IF pos > Len(s) THEN TRUE
    ELSE IF IsAt(s, pos, d) /\ FindFrom(s, pos + Len(d), d) # 0
    THEN LET q == FindFrom(s, pos + Len(d), d)
             part == SubSeq(s, pos + Len(d), q - 1)
         IN  Strip(part) = part /\ SpansTrimmed(s, q + Len(d), d)
    ELSE SpansTrimmed(s, pos + 1, d)

\* C2: a line of well-formed same-kind delimiter pairs with no --NAME token
\* outside the spans is returned as it was given, with no options.  Stated
\* for the lines whose span contents have no leading or trailing whitespace,
\* on which the trim at restoration changes nothing.
C2_RoundTrip ==
    ppc = "done" =>
        \A i \in DOMAIN delimiters :
            ( /\ SameKindPairs(input, 1, delimiters[i], 0)
              /\ SpansTrimmed(input, 1, delimiters[i])
              /\ FlagNames(OutsidePairs(input, 1, delimiters[i])) = {} )
            => out_text = input /\ out_args = EmptyArgs

(***************************************************************************)
(* Claims about complete                                                   *)
(***************************************************************************)
\* the events yielded for chunk k by the yield statement at the given line
YieldedAt(k, line) ==
    { i \in DOMAIN events : origin[i].chunk = k /\ origin[i].line = line }

\* C3: in the events of one call, no Usage event is followed by a
\* TokenDelta: every Usage event comes after all TokenDelta events.
C3_UsageAfterAllDeltas ==
    \A i, j \in DOMAIN events :
        (i < j /\ events[i].type = "UsageEvent")
            => events[j].type # "MessageDeltaEvent"

\* C4: when the provider call or the stream fails, the call raises
\* BadRequestError for a request-validation failure and CompletionError for
\* every other provider failure, with the message of the failure; no
\* failure leaves the call as an error of another kind.
C4_ErrorMapping ==
    failure # <<>> =>
        /\ cpc = "raised"
        /\ Len(error) = 1
        /\ error[1].message = failure[1].message
        /\ error[1].type =
              IF failure[1].type = "openai.BadRequestError"
              THEN "gptcli.BadRequestError"
              ELSE "gptcli.CompletionError"

\* the part of C4 that holds: a failure that is an openai.APIError is
\* raised as BadRequestError or CompletionError with its message
C4_ApiErrorMapping ==
    (failure # <<>> /\ IsInstance(failure[1].type, "openai.APIError")) =>
        /\ cpc = "raised"
        /\ error =
              <<[type |-> IF failure[1].type = "openai.BadRequestError"
                          THEN "gptcli.BadRequestError"
                          ELSE "gptcli.CompletionError",
                 message |-> failure[1].message]>>

\* C5: the step that raises yields no event (so a failure while chunk k is
\* delivered leaves the events of chunks 1..k-1 only), it raises exactly
\* one error, and after it no event is yielded and no other error raised.
C5_NothingAfterError ==
    [][ /\ (cpc' = "raised" /\ cpc # "raised") =>
              (events' = events /\ Len(error) = 0 /\ Len(error') = 1)
        /\ cpc = "raised" =>
              (cpc' = "raised" /\ events' = events /\ error' = error)
        /\ (cpc' = "raised" /\ stream) =>
              \A i \in DOMAIN origin' : origin'[i].chunk <= delivered' ]_vars

\* a stream has failed after a chunk that yielded events, and the caller
\* has asked for a further event
C5_Witness ==
    /\ cpc = "raised"
    /\ stream
    /\ delivered >= 1
    /\ events # <<>>
    /\ failure # <<>>
    /\ pulls >= 1

\* C6: a chunk yields a TokenDelta with its content exactly when it has a
\* choice, no finish_reason and non-empty content (the TokenDelta is the
\* first event of its chunk: it is there as soon as the generator stops at
\* a yield of the chunk, and when the chunk is done).
C6_ContentDelta ==
    (stream /\ cpc \in {"streaming", "suspended"} /\ delivered >= 1) =>
        LET chunk == response[1]
            mine == YieldedAt(delivered, 53)
        IN  IF /\ chunk.choices # <<>>
               /\ chunk.choices[1].finish_reason = <<>>
               /\ chunk.choices[1].content # <<>>
               /\ chunk.choices[1].content[1] # <<>>
            THEN /\ Cardinality(mine) = 1
                 /\ \A i \in mine :
                       events[i] = [type |-> "MessageDeltaEvent",
                                    text |-> chunk.choices[1].content[1]]
            ELSE mine = {}

\* a chunk with content and a finish_reason has been received after one
\* whose content was yielded
C6_Witness ==
    /\ cpc = "streaming"
    /\ delivered = 2
    /\ YieldedAt(1, 53) # {}
    /\ response[1].choices # <<>>
    /\ response[1].choices[1].finish_reason # <<>>
    /\ response[1].choices[1].content = << <<"a">> >>
    /\ YieldedAt(2, 53) = {}

\* the Usage events of chunk k are one event with the chunk's token counts
\* and the given tier
OneUsageEvent(k, chunk, tier) ==
    /\ Cardinality(YieldedAt(k, 56)) = 1
    /\ \A i \in YieldedAt(k, 56) :
          events[i] = [type |-> "UsageEvent",
                       prompt_tokens |-> chunk.usage[1].prompt_tokens,
                       completion_tokens |-> chunk.usage[1].completion_tokens,
                       total_tokens |-> chunk.usage[1].total_tokens,
                       pricing |-> tier]

\* C7 as claimed: a chunk with usage totals yields exactly one Usage event
\* with its token counts, with the tier of the requested model when one
\* matches, and still one Usage event when none matches (stated of a chunk
\* whose loop body has run to its end: the generator is back at the
\* stream).
C7_UsageAlwaysEmitted ==
    (cpc = "streaming" /\ delivered >= 1 /\ response[1].usage # <<>>) =>
        /\ Cardinality(YieldedAt(delivered, 56)) = 1
        /\ gpt_pricing(args_model) # <<>> =>
              OneUsageEvent(delivered, response[1], gpt_pricing(args_model)[1])

\* C7 amended: a chunk with usage totals yields exactly one Usage event with
\* its token counts and the tier of the requested model when a tier
\* matches, and no Usage event when none matches.
C7_UsageWhenPriced ==
    (cpc = "streaming" /\ delivered >= 1) =>
        IF response[1].usage # <<>> /\ gpt_pricing(args_model) # <<>>
        THEN OneUsageEvent(delivered, response[1], gpt_pricing(args_model)[1])
        ELSE YieldedAt(delivered, 56) = {}

\* usage totals have arrived for a model with a tier and a Usage event was
\* yielded
C7_Witness ==
    /\ cpc = "streaming"
    /\ delivered = 2
    /\ response[1].usage # <<>>
    /\ args_model = Id_gpt35_turbo_16k
    /\ YieldedAt(2, 56) # {}

\* C8 as claimed: a non-streaming call yields at most one TokenDelta, then
\* at most one Usage event; a response without usage yields exactly one
\* TokenDelta and no Usage event.
C8_NonStreamOneDelta ==
    (~stream /\ cpc \in {"done", "raised"} /\ response # <<>>) =>
        /\ Len(events) <= 2
        /\ \A i \in DOMAIN events :
              /\ events[i].type = "MessageDeltaEvent" => i = 1
              /\ events[i].type = "UsageEvent" => i = Len(events)
        /\ response[1].usage = <<>> =>
              /\ Len(events) = 1
              /\ events[1].type = "MessageDeltaEvent"

\* the response's first choice has non-empty content
HasFullContent(resp) ==
    /\ resp.choices # <<>>
    /\ resp.choices[1].content # <<>>
    /\ resp.choices[1].content[1] # <<>>

\* C8 amended: a non-streaming call yields at most one TokenDelta (the full
\* content), then at most one Usage event; a response without usage yields
\* no Usage event, and exactly one TokenDelta when its first choice has
\* non-empty content and no event otherwise.
C8_NonStreamShape ==
    (~stream /\ cpc \in {"done", "raised"} /\ response # <<>>) =>
        /\ Len(events) <= 2
        /\ \A i \in DOMAIN events :
              /\ events[i].type = "MessageDeltaEvent" =>
                    /\ i = 1
                    /\ HasFullContent(response[1])
                    /\ events[i].text = response[1].choices[1].content[1]
              /\ events[i].type = "UsageEvent" => i = Len(events)
        /\ response[1].usage = <<>> =>
              IF HasFullContent(response[1])
              THEN Len(events) = 1 /\ events[1].type = "MessageDeltaEvent"
              ELSE events = <<>>

\* a response with content and no usage has been returned
C8_Witness ==
    /\ ~stream
    /\ cpc = "done"
    /\ response # <<>>
    /\ response[1].usage = <<>>
    /\ HasFullContent(response[1])
    /\ Len(events) = 1

(***************************************************************************)
(* Claims about gpt_pricing                                                *)
(***************************************************************************)
\* the patterns gpt_pricing knows, each with its tier; the dated-preview
\* pattern is the regular expression, every other one a plain prefix
PricingPatterns ==
    { [prefix |-> Id_gpt35_turbo_16k, dated |-> FALSE,
       tier |-> MODEL_PRICING["gpt-3.5"]["16k"]],
      [prefix |-> Id_gpt35_turbo, dated |-> FALSE,
       tier |-> MODEL_PRICING["gpt-3.5"]["standard"]],
      [prefix |-> Id_gpt4_32k, dated |-> FALSE,
       tier |-> MODEL_PRICING["gpt-4"]["32k"]],
      [prefix |-> Id_gpt4o_mini, dated |-> FALSE,
       tier |-> MODEL_PRICING["gpt-4"]["o-mini"]],
      [prefix |-> Id_gpt4o_2024_05_13, dated |-> FALSE,
       tier |-> MODEL_PRICING["gpt-4"]["o-2024-05-13"]],
      [prefix |-> Id_chatgpt4o_latest, dated |-> FALSE,
       tier |-> MODEL_PRICING["gpt-4"]["o-2024-05-13"]],
      [prefix |-> Id_gpt4o, dated |-> FALSE,
       tier |-> MODEL_PRICING["gpt-4"]["o-2024-08-06"]],
      [prefix |-> Id_gpt4_turbo, dated |-> FALSE,
       tier |-> MODEL_PRICING["gpt-4"]["turbo"]],
      [prefix |-> Id_gpt4_dash, dated |-> TRUE,
       tier |-> MODEL_PRICING["gpt-4"]["turbo"]],
      [prefix |-> Id_gpt4, dated |-> FALSE,
       tier |-> MODEL_PRICING["gpt-4"]["standard"]],
      [prefix |-> Id_o1_preview, dated |-> FALSE,
       tier |-> MODEL_PRICING["o1"]["preview"]],
      [prefix |-> Id_o1_mini, dated |-> FALSE,
       tier |-> MODEL_PRICING["o1"]["mini"]] }

PatternMatches(p, id) ==
    IF p.dated THEN MatchesDatedPreview(id) ELSE StartsWith(id, p.prefix)

\* every id that matches p matches q too, and not the other way round
MoreSpecific(p, q) ==
    /\ ~q.dated
    /\ StartsWith(p.prefix, q.prefix)
    /\ p.prefix # q.prefix

\* C9: the tier returned is that of the most specific pattern the id
\* matches, never that of a more general one; gpt-4o-2024-05-13 gets the
\* o-2024-05-13 tier, gpt-3.5-turbo-16k-0613 the 16k tier, and an id that
\* matches no pattern gets no tier.
C9_SpecificBeforeGeneral ==
    rpc = "done" =>
        LET matching == { p \in PricingPatterns :
                            PatternMatches(p, pricing_model) }
        IN  /\ matching = {} <=> pricing = <<>>
            /\ \A p \in matching :
                  (\A q \in matching : ~MoreSpecific(q, p))
                      => pricing = <<p.tier>>
            /\ \A p, q \in matching :
                  MoreSpecific(p, q) => pricing # <<q.tier>>
            /\ pricing_model = Id_gpt4o_2024_05_13 =>
                  pricing = <<[prompt |-> 5000, response |-> 15000]>>
            /\ pricing_model = Id_gpt35_turbo_16k \o <<"-", "0", "6", "1", "3">> =>
                  pricing = <<[prompt |-> 3000, response |-> 4000]>>

\* gpt-4o-2024-05-13, which the gpt-4o and gpt-4 prefixes match too, has
\* been resolved
C9_Witness ==
    /\ rpc = "done"
    /\ pricing_model = Id_gpt4o_2024_05_13
    /\ pricing = <<MODEL_PRICING["gpt-4"]["o-2024-05-13"]>>

\* the number of elements of s that are ch
RECURSIVE CountChar(_, _)
CountChar(s, ch) ==
    IF s = <<>> THEN 0
    ELSE (IF Head(s) = ch THEN 1 ELSE 0) + CountChar(Tail(s), ch)

\* the line with no part of it taken as a literal span: its flags are
\* extracted from the line as it stands
ParseFlagsOnly(line) ==
    LET scan == ScanFlags(line, 1, <<>>, <<>>)
    IN  [text |-> IF scan.matches # <<>> THEN Strip(scan.rest) ELSE line,
         args |-> CollectArgs(EmptyArgs, scan.matches)]

\* the backticks of the line are one single backtick (triple = FALSE) or
\* one triple backtick (triple = TRUE), or there is none
LoneBackticks(line, triple) ==
    \/ CountChar(line, BT) = 0
    \/ CountChar(line, BT) = 1
    \/ triple /\ CountChar(line, BT) = 3 /\ Contains(line, <<BT, BT, BT>>)

\* the line has a delimiter, and no delimiter of the line has a closing
\* occurrence: at most one triple quote, and lone backticks
UnmatchedOnly(line, triple) ==
    /\ CountChar(line, DQ) <= 5
    /\ LoneBackticks(line, triple)
    /\ (CountChar(line, BT) >= 1 \/ Contains(line, <<DQ, DQ, DQ>>))

\* C14: when the delimiters of the line are all unmatched, parse_args
\* returns the text and the options of the line with no part of it taken
\* as a literal span: the flags are extracted as from a line without
\* literal spans, and nothing of a span shows in the result.
C14_UnmatchedDelimiter ==
    (ppc = "done" /\ UnmatchedOnly(input, TRUE)) =>
        /\ out_text = ParseFlagsOnly(input).text
        /\ out_args = ParseFlagsOnly(input).args

\* the part of C14 that holds: the same for an unmatched single backtick
\* and an unmatched triple quote
C14_UnmatchedSingle ==
    (ppc = "done" /\ UnmatchedOnly(input, FALSE)) =>
        /\ extracted_parts = <<>>
        /\ out_text = ParseFlagsOnly(input).text
        /\ out_args = ParseFlagsOnly(input).args

\* the flag matches of the line, in order, found outside its literal spans
FlagMatches(line) ==
    ScanFlags(SubLiterals(line, 1, <<>>, <<>>).text, 1, <<>>, <<>>).matches

\* the names matched more than once
DuplicateNames(line) ==
    { FlagMatches(line)[i].key : i \in
        { j \in DOMAIN FlagMatches(line) :
            \E k \in DOMAIN FlagMatches(line) :
               k # j /\ FlagMatches(line)[k].key = FlagMatches(line)[j].key } }

\* the last match of the name
LastMatch(line, name) ==
    LET occ == { i \in DOMAIN FlagMatches(line) :
                   FlagMatches(line)[i].key = name }
    IN  FlagMatches(line)[CHOOSE i \in occ : \A j \in occ : j <= i]

\* no element of s is a placeholder
NoPlaceholder(s) == \A i \in DOMAIN s : s[i] \notin Placeholders

\* C15: a flag name matched more than once outside literal spans has one
\* entry in the options; its value is the value of the last occurrence in
\* the line, quotes stripped, empty when that occurrence has none; no
\* occurrence of the flag stays in the returned text.
C15_LastDuplicateWins ==
    ppc = "done" =>
        \A name \in DuplicateNames(input) :
            /\ name \in DOMAIN out_args
            /\ out_args[name] =
                  StripChars(FlagValue(LastMatch(input, name)), {DQ, SQ})
            /\ NoPlaceholder(out_args[name])
            /\ name \notin FlagNames(OutsideSpans(out_text))

\* the part of C15 that holds: the entry is that of the last match, and no
\* occurrence stays in the text
C15_LastMatchWins ==
    ppc = "done" =>
        \A name \in DuplicateNames(input) :
            /\ name \in DOMAIN out_args
            /\ out_args[name] =
                  StripChars(FlagValue(LastMatch(input, name)), {DQ, SQ})
            /\ name \notin FlagNames(OutsideSpans(out_text))

(***************************************************************************)
(* Claims about StreamingMarkdownPrinter                                   *)
(***************************************************************************)
\* the first fragment less one leading space, then the other fragments
ExpectedText(frags) ==
    IF frags = <<>> THEN <<>>
    ELSE (IF Head(frags) # <<>> /\ Head(Head(frags)) = SP
          THEN Tail(Head(frags)) ELSE Head(frags))
         \o Concat(Tail(frags))

\* C10: after print calls f1..fn on a fresh printer, current_text is f1 less
\* one leading space (if it has one) followed by f2..fn unaltered; at most
\* one character is dropped.
C10_CurrentText ==
    /\ current_text = ExpectedText(fragments)
    /\ Len(current_text) >= Len(Concat(fragments)) - 1

\* a first fragment with two leading spaces, then fragments with a leading
\* space, have been printed
C10_Witness ==
    /\ Len(fragments) = 3
    /\ fragments[1] = <<SP, SP, "a">>
    /\ fragments[2] = <<SP, "a">>
    /\ fragments[3] = <<SP>>
    /\ current_text = <<SP, "a", SP, "a", SP>>

\* a step of __exit__ on a printer that __enter__ was called on
ExitStep == live # "None" /\ PrinterExit

\* C11: at __exit__ the live text is appended unmodified to chat_history as
\* one assistant entry and current_text is cleared, so that afterwards the
\* turn's text is held once (in chat_history) and not in current_text.
C11_ExitClearsLiveText ==
    [][ ExitStep =>
          /\ chat_history' =
                IF current_text # <<>>
                THEN Append(chat_history, <<current_text, "assistant">>)
                ELSE chat_history
          /\ current_text' = <<>>
          /\ (current_text # <<>> =>
                Cardinality({ i \in DOMAIN chat_history' :
                                chat_history'[i][1] = current_text })
                + (IF current_text' = current_text THEN 1 ELSE 0) = 1)
      ]_vars

\* the part of C11 that holds: __exit__ appends the live text unmodified as
\* one assistant entry
C11_ExitAppendsUnmodified ==
    [][ ExitStep =>
          chat_history' =
             IF current_text # <<>>
             THEN Append(chat_history, <<current_text, "assistant">>)
             ELSE chat_history
      ]_vars

\* the number of fences of a text, counted run by run: a run of n backticks
\* holds n \div 3 of them
RECURSIVE FencesByRuns(_, _, _)
FencesByRuns(text, pos, run) ==
    IF pos > Len(text) THEN run \div 3
    ELSE IF text[pos] = BT THEN FencesByRuns(text, pos + 1, run + 1)
         ELSE (run \div 3) + FencesByRuns(text, pos + 1, 0)

\* the texts the printer stores
StoredTexts ==
    {current_text} \cup { chat_history[i][1] : i \in DOMAIN chat_history }

\* C12: in markdown mode every text handed to CustomMarkdown is the stored
\* text plus a closing fence exactly when the stored text has an odd number
\* of fences, and the stored text otherwise; the stored texts themselves
\* are the printed fragments only, never with a fence added.
C12_SyntheticFence ==
    /\ markdown =>
          /\ \A i \in DOMAIN handed :
                /\ handed[i].text \in StoredTexts
                /\ handed[i].temp_text =
                      IF FencesByRuns(handed[i].text, 1, 0) % 2 = 1
                      THEN handed[i].text \o <<"\n", BT, BT, BT>>
                      ELSE handed[i].text
          /\ (current_text # <<>> /\ fragments # <<>>) =>
                (handed # <<>> /\ handed[Len(handed)].text = current_text)
    /\ current_text = ExpectedText(fragments)
    /\ \A i \in DOMAIN chat_history :
          \E k \in 0..Len(fragments) :
             chat_history[i] =
                <<ExpectedText(SubSeq(fragments, 1, k)), "assistant">>

\* in markdown mode a text with one fence was rendered with the closing
\* fence, then a text with two fences was rendered as it is, and
\* current_text holds the fragments only
C12_Witness ==
    /\ markdown
    /\ unparsable = <<>>
    /\ live = "stopped"
    /\ fragments = << <<BT, BT, BT>>, <<"a">>, <<BT, BT, BT>> >>
    /\ current_text = <<BT, BT, BT, "a", BT, BT, BT>>
    /\ chat_history = << << <<BT, BT, BT, "a">>, "assistant" >> >>
    /\ handed =
          << [text |-> <<BT, BT, BT, "a">>,
              temp_text |-> <<BT, BT, BT, "a", "\n", BT, BT, BT>>],
             [text |-> current_text, temp_text |-> current_text] >>

\* a view without the newline Text that follows a history entry
RECURSIVE NoSeparators(_)
NoSeparators(v) ==
    IF v = <<>> THEN <<>>
    ELSE (IF Head(v) = Text(<<"\n">>, "") THEN <<>> ELSE <<Head(v)>>)
         \o NoSeparators(Tail(v))

\* C13: the rendering of the printer's state after __exit__ equals the view
\* rendered at the last fragment (the separator after a history entry
\* aside): the turn's text is in it once, neither dropped nor duplicated.
C13_RenderIdempotent ==
    [][ ExitStep =>
          NoSeparators(_render_chat_history(markdown, chat_history',
                                            current_text', unparsable))
          = NoSeparators(view)
      ]_vars

(***************************************************************************)
(* Claims about the model id of complete                                   *)
(***************************************************************************)
\* C18: for a requested id that starts with oai-compat:, the request is
\* sent with the id less that prefix, gpt_pricing finds no tier for the
\* requested id (whatever follows the prefix), and the call yields no Usage
\* event, whatever usage the provider reports.
C18_CompatNoUsage ==
    StartsWith(args_model, Id_oai_compat) =>
        /\ request # <<>> =>
              Id_oai_compat \o request[1].model = args_model
        /\ gpt_pricing(args_model) = <<>>
        /\ cpc = "start" =>
              \A id \in PricingModels :
                 gpt_pricing(Id_oai_compat \o id) = <<>>
        /\ \A i \in DOMAIN events : events[i].type # "UsageEvent"

\* the request for oai-compat:gpt-4o went out as gpt-4o, a model with a
\* tier, two chunks with usage totals arrived, and no Usage event was
\* yielded
C18_Witness ==
    /\ args_model = Id_oai_compat \o Id_gpt4o
    /\ request = <<[stream |-> TRUE, model |-> Id_gpt4o]>>
    /\ gpt_pricing(Id_gpt4o) # <<>>
    /\ cpc = "done"
    /\ delivered = 2
    /\ response[1].usage # <<>>
    /\ events # <<>>
    /\ \A i \in DOMAIN events : events[i].type = "MessageDeltaEvent"

(***************************************************************************)
(* Claims about CLIUserInputProvider and CLIChatListener                    *)
(***************************************************************************)
\* C16: a prompt that is interrupted returns the empty line; after an
\* empty line (interrupt or empty submission, single-line or multiline)
\* get_user_input prompts again; it returns only after a prompt gave a
\* non-empty line, which is the line parse_args gets; no interrupt leaves
\* get_user_input.
C16_EmptyLineAsksAgain ==
    /\ upc # "raised"
    /\ \A i \in DOMAIN prompts :
          /\ prompts[i].interrupt => prompts[i].line = <<>>
          /\ i < Len(prompts) =>
                \/ prompts[i].line = <<>> /\ ~prompts[i + 1].multiline
                \/ /\ prompts[i].line = <<BACKSLASH>>
                   /\ ~prompts[i].multiline
                   /\ prompts[i + 1].multiline
    /\ (prompts # <<>> /\ prompts[Len(prompts)].line = <<>>) =>
          (upc = "prompt" /\ ppc = "idle")
    /\ upc = "returned" =>
          /\ prompts # <<>>
          /\ prompts[Len(prompts)].line # <<>>
          /\ next_user_input = prompts[Len(prompts)].line
          /\ ppc = "done"
          /\ input = next_user_input
    /\ ppc = "done" => input # <<>>
    /\ upc # "returned" => ppc = "idle"

\* a single-line prompt was interrupted, the next one gave a backslash,
\* the multiline prompt was interrupted, and get_user_input returned with
\* the line of the fourth prompt
C16_Witness ==
    /\ Len(prompts) = 4
    /\ prompts[1] = [multiline |-> FALSE, interrupt |-> TRUE,
                     raises |-> FALSE, line |-> <<>>]
    /\ prompts[2].line = <<BACKSLASH>>
    /\ prompts[3] = [multiline |-> TRUE, interrupt |-> TRUE,
                     raises |-> FALSE, line |-> <<>>]
    /\ prompts[4].line = <<DASH, DASH, "a">>
    /\ upc = "returned"
    /\ out_args = (<<"a">> :> <<>>)

\* C17: an error raised by complete and given to on_error is shown as the
\* Request Error line (the last prompt was not saved) when it is
\* BadRequestError, and as the API Error line (try again) when it is
\* another CompletionError.
C17_ErrorDisplay ==
    [][ OnCompleteError =>
          /\ error[1].type = "gptcli.BadRequestError" =>
                console'[Len(console')].text =
                   "Request Error. The last prompt was not saved"
          /\ error[1].type = "gptcli.CompletionError" =>
                console'[Len(console')].text =
                   "API Error. Type r or Ctrl-R to try again"
      ]_vars

\* what on_error does with the errors of complete: every one of them is
\* shown by the last branch, with its class and its message
C17_ShownAsOtherError ==
    [][ OnCompleteError =>
          console' = Append(console,
                            [object |-> "str", text |-> "Error",
                             type |-> error[1].type,
                             message |-> error[1].message])
      ]_vars

\* the entry is an assistant entry that holds the text of the tokens
\* given to the printer p up to some point, and that text is not empty
AssistantEntry(p, entry) ==
    \E k \in 1..Len(p.fragments) :
       /\ ExpectedText(SubSeq(p.fragments, 1, k)) # <<>>
       /\ entry = <<ExpectedText(SubSeq(p.fragments, 1, k)), "assistant">>

\* C19 as claimed: current_printer is None in every state, so
\* on_chat_message adds nothing to a printer's chat_history, and the
\* history of each printer holds at most one entry, the assistant entry
\* with the non-empty response text.  The calls the claim lists have no
\* __enter__ among them; without it self.live stays None and __exit__ adds
\* no entry at all, so the entry the claim speaks of is one of a printer
\* that __enter__ was called on, and the calls are taken with __enter__
\* among them, on any of the streamers made.
C19_AtMostOneEntry ==
    /\ current_printer = <<>>
    /\ \A i \in DOMAIN printers :
          LET history == printers[i].chat_history
          IN  /\ \A n \in DOMAIN history : history[n][2] # "user"
              /\ Len(history) <= 1
              /\ history # <<>> => AssistantEntry(printers[i], history[1])

\* C19 amended: current_printer is None in every state, so on_chat_message
\* adds nothing to a printer's chat_history; every streamer made keeps its
\* printer; the history of each printer holds assistant entries only, none
\* as long as __enter__ was not called on it, and it changes only when
\* __exit__ is called on it after __enter__ while its response text is not
\* empty: every such call adds one entry with that text, a repeated call
\* included, and changes no other printer.
C19_NoCurrentPrinter ==
    /\ [](/\ current_printer = <<>>
          /\ \A i \in DOMAIN printers :
                LET history == printers[i].chat_history
                IN  /\ \A n \in DOMAIN history :
                          AssistantEntry(printers[i], history[n])
                    /\ printers[i].live = "None" => history = <<>>)
    /\ [][ /\ DOMAIN printers \subseteq DOMAIN printers'
           /\ \A i \in DOMAIN printers' \ DOMAIN printers :
                 printers'[i].chat_history = <<>>
           /\ \A i \in DOMAIN printers :
                 /\ printers'[i].chat_history # printers[i].chat_history =>
                       /\ StreamerExit
                       /\ printers[i].live # "None"
                       /\ printers[i].current_text # <<>>
                       /\ \A j \in DOMAIN printers \ {i} :
                             printers'[j] = printers[j]
                 /\ (/\ StreamerExit
                     /\ printers'[i] # printers[i]
                     /\ printers[i].live # "None"
                     /\ printers[i].current_text # <<>>) =>
                       printers'[i].chat_history =
                          Append(printers[i].chat_history,
                                 <<printers[i].current_text, "assistant">>)
         ]_vars

\* on_chat_message was called and two streamers were made.  The first one
\* was entered, and its __exit__ was called after its first token and
\* again after its second, so its printer holds two assistant entries and
\* no user entry; the second one, made while the first one's Live was
\* started, was entered after the first one was left: its Live is started,
\* the console holds the empty lines of both, and its printer holds no
\* entry
C19_Witness ==
    /\ messages = MaxMessages
    /\ Len(printers) = 2
    /\ printers[1].live = "stopped"
    /\ printers[1].fragments = << <<SP, "a">>, <<"a">> >>
    /\ printers[1].chat_history = << << <<"a">>, "assistant" >>,
                                    << <<"a", "a">>, "assistant" >> >>
    /\ printers[2].live = "started"
    /\ printers[2].fragments = <<>>
    /\ printers[2].chat_history = <<>>
    /\ console = << Printed("", ""), Printed("", "") >>
    /\ console_live
    /\ current_printer = <<>>

====
